---- MODULE Spec2Model ----
(***************************************************************************)
(* Model of the migration coordinator of postgres-schema-builder           *)
(* (src/src/database-schema.ts): DatabaseSchema instances ("nodes") that   *)
(* share one PostgreSQL database and coordinate through the                *)
(* schema_management table (the ledger).                                   *)
(*                                                                         *)
(* Every `await transaction.query(...)` of the source is a scheduling      *)
(* point; consecutive statements that no other node can observe (they run  *)
(* under the ACCESS EXCLUSIVE table lock, or touch only local variables)   *)
(* are taken in one action.  A call that returns leaves its outcome in     *)
(* `last`, so a property of "the call that has just returned" is a state   *)
(* predicate.                                                              *)
(***************************************************************************)
EXTENDS Integers, Sequences, FiniteSets, TLC

(* ---------------------------- bounds ----------------------------------- *)
\* number of DatabaseSchema instances
NumNodes == 2
\* largest migration version a MigrationSet may contain (keys are 2..MaxVersion)
MaxVersion == 3
\* number of step executions that may fail with a database error
MaxFailures == 1

Node == 1..NumNodes
\* the schema names (IDatabaseSchemaArgs.name) in use
Names == {"SchemaA", "SchemaB"}
Versions == 2..MaxVersion
\* the MigrationSets (key sets of IDatabaseSchemaArgs.migrations) in use
MigrationSets == SUBSET Versions

(* ------------------------ JavaScript values ---------------------------- *)
\* `null` returned by getCurrentVersionAndLockSchema
Null == -1
\* `undefined`: the last element of an empty key array in migrateLatest
Undefined == -2

\* a <= b of JavaScript: false as soon as one side is undefined (NaN)
JsLeq(a, b) == a # Undefined /\ b # Undefined /\ a <= b

\* truthiness of `currentVersion` in `if (currentVersion)`
Truthy(v) == v # Null /\ v # Undefined /\ v # 0

RECURSIVE Digits(_)
\* decimal digits of a natural number, as Number.prototype.toString gives them
Digits(k) == IF k < 10 THEN <<k>> ELSE Append(Digits(k \div 10), k % 10)

RECURSIVE SeqLess(_, _)
\* code-unit order of two digit strings, the order of Array.prototype.sort()
SeqLess(a, b) ==
    IF a = <<>> THEN b # <<>>
    ELSE IF b = <<>> THEN FALSE
    ELSE IF Head(a) # Head(b) THEN Head(a) < Head(b)
    ELSE SeqLess(Tail(a), Tail(b))

\* max(...) of lodash on an array of numbers: undefined for the empty array
LodashMax(S) == IF S = {} THEN Undefined ELSE CHOOSE x \in S : \A y \in S : y <= x

(* ---------------------------- ledger rows ------------------------------ *)
Row(v, l) == [exists |-> TRUE, version |-> v, locked |-> l]
NoRow == [exists |-> FALSE, version |-> 0, locked |-> FALSE]

\* no transaction; `touched`: holds a lock on schema_management, `dirty`:
\* has written `row`, `bundle`: ran the create statements, `step`: ran the
\* step of that version (0: none)
NoTx == [open |-> FALSE, touched |-> FALSE, dirty |-> FALSE, row |-> NoRow,
         bundle |-> FALSE, step |-> 0]

\* sortTableDependencies has not been called
NotSorted == [done |-> FALSE, ok |-> FALSE, order |-> <<>>]

\* no statement-building function has been called
NoArgs == [fn |-> "none"]
NotReturned == [done |-> FALSE]

NoCall == [node |-> 0, op |-> "none", target |-> 0, result |-> "none"]
Call(n, o, t, r) == [node |-> n, op |-> o, target |-> t, result |-> r]

VARIABLES
    name,           \* name[n]: schema name the instance was constructed with
    migrations,     \* migrations[n]: keys of the instance's MigrationSet
    version,        \* `let version` of the instance
    isInitialized,  \* `let isInitialized` of the instance
    pc,             \* position of the instance's running call
    target,         \* targetVersion of the running migrateToVersion
    newVersion,     \* loop variable of migrateToVersion
    dbResults,      \* versionDBResults[0] of init (NoRow when length 0)
    tx,             \* the instance's open transaction: its uncommitted writes
    last,           \* the call that has just returned, and how (NoCall otherwise)
    tableLock,      \* holder of the ACCESS EXCLUSIVE lock on schema_management
    tableExists,    \* schema_management exists (committed)
    ledger,         \* committed rows of schema_management, by name
    bundleCount,    \* committed executions of the create statements, by name
    invoked,        \* invocations of the step function, by name and version
    commits,        \* committed transactions that applied a step
    failures,       \* step executions that failed so far
    foreignKeys,    \* the schema's foreign keys: <<referencing table, target table>>
    sorted,         \* what sortTableDependencies(schema) gave (NotSorted before)
    args,           \* the arguments of the statement-building call (NoArgs: none)
    returned        \* what that call returned or threw (NotReturned before)

conf == <<name, migrations, foreignKeys, sorted, args, returned>>
vars == <<name, migrations, foreignKeys, sorted, args, returned, version, isInitialized, pc, target, newVersion,
          dbResults, tx, last, tableLock, tableExists, ledger,
          bundleCount, invoked, commits, failures>>

\* the database the instances start against: fresh, or left by an earlier
\* deployment whose init() (with no migrations yet) registered "SchemaA" at
\* version 1
InitialLedgers ==
    {[s \in Names |-> NoRow],
     [s \in Names |-> IF s = "SchemaA" THEN Row(1, FALSE) ELSE NoRow]}

\* the instances are replicas of one build: they are constructed with the
\* same MigrationSet; all but the last share the schema name
Init ==
    /\ name \in [Node -> Names]
    /\ \A n \in Node \ {NumNodes} : name[n] = "SchemaA"
    /\ \E m \in MigrationSets : migrations = [n \in Node |-> m]
    /\ version = [n \in Node |-> 0]
    /\ isInitialized = [n \in Node |-> FALSE]
    /\ pc = [n \in Node |-> "idle"]
    /\ target = [n \in Node |-> 0]
    /\ newVersion = [n \in Node |-> 0]
    /\ dbResults = [n \in Node |-> NoRow]
    /\ tx = [n \in Node |-> NoTx]
    /\ last = NoCall
    /\ tableLock = 0
    /\ ledger \in InitialLedgers
    /\ tableExists = (\E s \in Names : ledger[s].exists)
    /\ bundleCount = [s \in Names |-> IF ledger[s].exists THEN 1 ELSE 0]
    /\ invoked = [s \in Names |-> [v \in Versions |-> 0]]
    /\ commits = [s \in Names |-> [v \in Versions |-> 0]]
    /\ failures = 0
    /\ foreignKeys = {}
    /\ sorted = NotSorted
    /\ args = NoArgs
    /\ returned = NotReturned

(* ------------------- the database client's transaction ----------------- *)
\* client.transaction(fn): BEGIN
Begin == [NoTx EXCEPT !.open = TRUE]

\* COMMIT of node n's transaction with writes t: they become the committed
\* state, the transaction's locks are released
Commit(n, t) ==
    /\ ledger' = IF t.dirty THEN [ledger EXCEPT ![name[n]] = t.row] ELSE ledger
    /\ bundleCount' = IF t.bundle
                      THEN [bundleCount EXCEPT ![name[n]] = @ + 1] ELSE bundleCount
    /\ commits' = IF t.step # 0
                  THEN [commits EXCEPT ![name[n]][t.step] = @ + 1] ELSE commits
    /\ tableLock' = IF tableLock = n THEN 0 ELSE tableLock

\* ROLLBACK after the callback threw: the writes are dropped, the
\* transaction's locks are released
Rollback(n) ==
    /\ UNCHANGED <<ledger, bundleCount, commits>>
    /\ tableLock' = IF tableLock = n THEN 0 ELSE tableLock

\* the call of node n returns (r = "ok") or rejects with error r
Return(n, o, t, r) ==
    /\ last' = Call(n, o, t, r)
    /\ pc' = [pc EXCEPT ![n] = "idle"]
    /\ target' = [target EXCEPT ![n] = 0]
    /\ newVersion' = [newVersion EXCEPT ![n] = 0]
    /\ dbResults' = [dbResults EXCEPT ![n] = NoRow]
    /\ tx' = [tx EXCEPT ![n] = NoTx]

(* ------------------------------ init() --------------------------------- *)
\* mutant: parseInt(max(Object.keys(migrations)) || "1"), a Map has no own keys
getLatestMigrationVersion_ObjectKeys(m) == 1

\* getLatestMigrationVersion: max(Array.from(migrations.keys())) || 1
getLatestMigrationVersion(m) ==
    IF Truthy(LodashMax(m)) THEN LodashMax(m) ELSE 1

\* mutant: the guard is missing
AlreadyInitialized_Never(n) == FALSE

\* the guard `if (isInitialized) throw`
AlreadyInitialized(n) == isInitialized[n]

\* init(): the guard; then client.transaction opens and CREATE TABLE IF NOT
\* EXISTS schema_management runs (it waits for nothing, and the table is
\* there for every transaction that commits after it)
init(n) ==
    /\ pc[n] = "idle"
    /\ IF AlreadyInitialized(n)
       THEN /\ last' = Call(n, "init", 0, "already_initialized")
            /\ UNCHANGED <<pc, tx>>
       ELSE /\ pc' = [pc EXCEPT ![n] = "init_select"]
            /\ tx' = [tx EXCEPT ![n] = Begin]
            /\ last' = NoCall
    /\ UNCHANGED <<conf, version, isInitialized, target, newVersion, dbResults, tableLock, tableExists, ledger, bundleCount, invoked,
                   commits, failures>>

\* mutant: the row found is ignored
IsGenesis_Always(r) == TRUE

\* versionDBResults.length === 0
IsGenesis(r) == ~r.exists

\* the SELECT of selectVersionQuery(name) waits while another transaction
\* holds the ACCESS EXCLUSIVE lock and sees committed rows only.  No row:
\* the create statements run; a row: version = versionDBResults[0].version
init_select(n) ==
    /\ pc[n] = "init_select"
    /\ tableLock \in {0, n}
    /\ dbResults' = [dbResults EXCEPT ![n] = ledger[name[n]]]
    /\ IF IsGenesis(ledger[name[n]])
       THEN /\ pc' = [pc EXCEPT ![n] = "init_insert"]
            /\ tx' = [tx EXCEPT ![n].touched = TRUE, ![n].bundle = TRUE]
            /\ UNCHANGED version
       ELSE /\ pc' = [pc EXCEPT ![n] = "init_commit"]
            /\ tx' = [tx EXCEPT ![n].touched = TRUE]
            /\ version' = [version EXCEPT ![n] = ledger[name[n]].version]
    /\ last' = NoCall
    /\ UNCHANGED <<conf, isInitialized, target, newVersion,
                   tableLock, tableExists, ledger, bundleCount, invoked, commits,
                   failures>>

\* another open transaction has inserted, and not yet committed, a row with
\* the same primary key: the INSERT waits for that transaction to end
InsertWaits(n) ==
    \E m \in Node \ {n} : tx[m].open /\ tx[m].dirty /\ name[m] = name[n]
                          /\ ~ledger[name[n]].exists

\* mutant: the catch of init rethrows nothing
Swallowed_All(err) == TRUE

\* the catch of init rethrows unless
\* err.message.indexOf("duplicate key value violates unique constraint") # -1
Swallowed(err) == err = "duplicate_key"

\* transaction.query(insertSchemaQuery(name, initialVersion)), then
\* version = initialVersion.  A committed row of the same name is a
\* unique-constraint violation: the query throws before the assignment, the
\* transaction rolls back and the catch of init decides.
init_insert(n) ==
    /\ pc[n] = "init_insert"
    /\ ~InsertWaits(n)
    /\ IF ledger[name[n]].exists
       THEN /\ Rollback(n)
            /\ IF Swallowed("duplicate_key")
               THEN /\ isInitialized' = [isInitialized EXCEPT ![n] = TRUE]
                    /\ Return(n, "init", 0, "ok")
               ELSE /\ UNCHANGED isInitialized
                    /\ Return(n, "init", 0, "duplicate_key")
            /\ UNCHANGED <<version, tableExists>>
       ELSE /\ tx' = [tx EXCEPT ![n].dirty = TRUE,
                                ![n].row = Row(getLatestMigrationVersion(migrations[n]), FALSE)]
            /\ version' = [version EXCEPT ![n] = getLatestMigrationVersion(migrations[n])]
            /\ pc' = [pc EXCEPT ![n] = "init_commit"]
            /\ last' = NoCall
            /\ UNCHANGED <<isInitialized, target, newVersion, dbResults,
                           tableLock, tableExists, ledger, bundleCount, commits>>
    /\ UNCHANGED <<conf, invoked, failures>>

\* the callback returned: COMMIT, then isInitialized = true
init_commit(n) ==
    /\ pc[n] = "init_commit"
    /\ Commit(n, tx[n])
    /\ tableExists' = TRUE
    /\ isInitialized' = [isInitialized EXCEPT ![n] = TRUE]
    /\ Return(n, "init", 0, "ok")
    /\ UNCHANGED <<conf, version, invoked, failures>>

(* ------------------------- migrateToVersion() -------------------------- *)
\* mutant: the loop starts at the genesis version
LoopStart_FromGenesis(v) == 1

\* `let newVersion = version`: the loop starts at the local version itself
LoopStart(v) == v

\* mutant: newVersion < targetVersion
LoopContinues_Strict(nv, t) == nv # Undefined /\ t # Undefined /\ nv < t

\* the loop condition `newVersion <= targetVersion`
LoopContinues(nv, t) == JsLeq(nv, t)

\* mutant: only targets below the genesis version are rejected
TargetTooLow_BelowGenesis(t) == JsLeq(t, 0)

\* the precondition `targetVersion <= 1`
TargetTooLow(t) == JsLeq(t, 1)

\* the two precondition checks, then the loop header of migrateToVersion;
\* an iteration starts with client.transaction (BEGIN)
migrateToVersionBody(n, t) ==
    /\ IF ~isInitialized[n]
       THEN /\ last' = Call(n, "migrate", t, "not_initialized")
            /\ UNCHANGED <<pc, target, tx, newVersion>>
       ELSE IF TargetTooLow(t)
       THEN /\ last' = Call(n, "migrate", t, "target_too_low")
            /\ UNCHANGED <<pc, target, tx, newVersion>>
       ELSE IF LoopContinues(LoopStart(version[n]), t)
       THEN /\ newVersion' = [newVersion EXCEPT ![n] = LoopStart(version[n])]
            /\ pc' = [pc EXCEPT ![n] = "mig_lock"]
            /\ target' = [target EXCEPT ![n] = t]
            /\ tx' = [tx EXCEPT ![n] = Begin]
            /\ last' = NoCall
       ELSE /\ last' = Call(n, "migrate", t, "ok")
            /\ UNCHANGED <<pc, target, tx, newVersion>>
    /\ UNCHANGED <<conf, version, isInitialized, dbResults, tableLock, tableExists,
                   ledger, bundleCount, invoked, commits, failures>>

\* the targets callers pass to migrateToVersion
Targets == 1..MaxVersion

migrateToVersion(n, t) ==
    /\ pc[n] = "idle"
    /\ migrateToVersionBody(n, t)

\* Array.from(migrations.keys()).sort(): the default sort compares the keys
\* as strings; latestVersion is the last element, undefined for no keys
LatestVersion(m) ==
    IF m = {} THEN Undefined
    ELSE CHOOSE x \in m : \A y \in m \ {x} : SeqLess(Digits(y), Digits(x))

migrateLatest(n) ==
    /\ pc[n] = "idle"
    /\ migrateToVersionBody(n, LatestVersion(migrations[n]))

\* mutant: the table lock is not taken
CanLockTable_NoWait(n) == TRUE

\* LOCK TABLE schema_management IN ACCESS EXCLUSIVE MODE is granted when no
\* other open transaction holds a lock on the table
CanLockTable(n) ==
    /\ tableLock = 0
    /\ \A m \in Node \ {n} : ~tx[m].touched

\* dbResults.length === 1 && dbResults[0].locked === false
Lockable(r) == r.exists /\ r.locked = FALSE

\* mutant: the version is not read from the row
CurrentVersion_Genesis(r) == IF Lockable(r) THEN 1 ELSE Null

\* getCurrentVersionAndLockSchema after the table lock: the SELECT and, for
\* a row that is not locked, its version; null otherwise
CurrentVersion(r) == IF Lockable(r) THEN r.version ELSE Null

\* the row of its name the transaction t of node n sees: its own write, or
\* the committed row
Visible(n, t) == IF t.dirty THEN t.row ELSE ledger[name[n]]

\* UPDATE schema_management SET locked = $1 WHERE name = $2 in transaction t
\* of node n (no row: nothing is updated)
setSchemaLock(n, t, l) ==
    IF Visible(n, t).exists
    THEN [t EXCEPT !.dirty = TRUE, !.row = [Visible(n, t) EXCEPT !.locked = l]]
    ELSE t

\* mutant: the row is deleted instead of updated
updateSchemaVersion_Delete(n, t, v) == [t EXCEPT !.dirty = TRUE, !.row = NoRow]

\* updateSchemaVersionQuery(name, newVersion) in transaction t of node n
updateSchemaVersion(n, t, v) ==
    IF Visible(n, t).exists
    THEN [t EXCEPT !.dirty = TRUE, !.row = [Visible(n, t) EXCEPT !.version = v]]
    ELSE t

\* the transaction of node n after getCurrentVersionAndLockSchema: it holds
\* the table lock and has set locked = true on a row that was not locked
Locked(n) ==
    IF Lockable(ledger[name[n]])
    THEN setSchemaLock(n, [tx[n] EXCEPT !.touched = TRUE], TRUE)
    ELSE [tx[n] EXCEPT !.touched = TRUE]

\* mutant: currentVersion > newVersion
SkipStep_Strict(cur, nv) == cur = Null \/ cur > nv

\* currentVersion === null || currentVersion >= newVersion
SkipStep(cur, nv) == cur = Null \/ cur >= nv

\* the transaction's callback returned and COMMIT succeeded:
\* version = newVersion, newVersion++, and the loop condition
FinishIteration(n) ==
    /\ version' = [version EXCEPT ![n] = newVersion[n]]
    /\ IF LoopContinues(newVersion[n] + 1, target[n])
       THEN /\ newVersion' = [newVersion EXCEPT ![n] = @ + 1]
            /\ pc' = [pc EXCEPT ![n] = "mig_lock"]
            /\ tx' = [tx EXCEPT ![n] = Begin]
            /\ last' = NoCall
            /\ UNCHANGED <<target, dbResults>>
       ELSE Return(n, "migrate", target[n], "ok")

\* mutant: the local version is advanced although the callback threw
Abort_AdvancesVersion(n, err) ==
    /\ Rollback(n)
    /\ Return(n, "migrate", target[n], err)
    /\ version' = [version EXCEPT ![n] = newVersion[n]]

\* mutant: the flag set by getCurrentVersionAndLockSchema is committed
\* although the callback threw
Abort_KeepsFlag(n, err) ==
    /\ ledger' = [ledger EXCEPT ![name[n]].locked = TRUE]
    /\ tableLock' = IF tableLock = n THEN 0 ELSE tableLock
    /\ UNCHANGED <<bundleCount, commits>>
    /\ Return(n, "migrate", target[n], err)
    /\ UNCHANGED version

\* the callback threw: ROLLBACK, and migrateToVersion rejects with err
Abort(n, err) ==
    /\ Rollback(n)
    /\ Return(n, "migrate", target[n], err)
    /\ UNCHANGED version

\* the table lock is granted and the step is not needed: the flag is
\* released when currentVersion is truthy, the callback returns, COMMIT
mig_skip(n) ==
    /\ pc[n] = "mig_lock"
    /\ CanLockTable(n)
    /\ LET cur == CurrentVersion(ledger[name[n]])
       IN  /\ SkipStep(cur, newVersion[n])
           /\ Commit(n, IF Truthy(cur)
                        THEN setSchemaLock(n, Locked(n), FALSE)
                        ELSE Locked(n))
    /\ FinishIteration(n)
    /\ UNCHANGED <<conf, isInitialized, tableExists, invoked, failures>>

\* the table lock is granted, the step is needed and migrations.get(newVersion)
\* is undefined: the flag is released, the callback throws, ROLLBACK
mig_notfound(n) ==
    /\ pc[n] = "mig_lock"
    /\ CanLockTable(n)
    /\ ~SkipStep(CurrentVersion(ledger[name[n]]), newVersion[n])
    /\ newVersion[n] \notin migrations[n]
    /\ Abort(n, "not_found")
    /\ UNCHANGED <<conf, isInitialized, tableExists, invoked, failures>>

\* the table lock is granted, the step is needed: migration.up({ transaction,
\* database }) and the queries it returns run in the transaction
mig_up(n) ==
    /\ pc[n] = "mig_lock"
    /\ CanLockTable(n)
    /\ ~SkipStep(CurrentVersion(ledger[name[n]]), newVersion[n])
    /\ newVersion[n] \in migrations[n]
    /\ tableLock' = n
    /\ invoked' = [invoked EXCEPT ![name[n]][newVersion[n]] = @ + 1]
    /\ tx' = [tx EXCEPT ![n] = [Locked(n) EXCEPT !.step = newVersion[n]]]
    /\ pc' = [pc EXCEPT ![n] = "mig_record"]
    /\ last' = NoCall
    /\ UNCHANGED <<conf, version, isInitialized, target, newVersion, dbResults,
                   tableExists, ledger, bundleCount, commits,
                   failures>>

\* mutant: the error of the step is swallowed and the loop goes on
mig_up_fails_Swallowed(n) ==
    /\ pc[n] = "mig_lock"
    /\ CanLockTable(n)
    /\ ~SkipStep(CurrentVersion(ledger[name[n]]), newVersion[n])
    /\ newVersion[n] \in migrations[n]
    /\ failures < MaxFailures
    /\ failures' = failures + 1
    /\ invoked' = [invoked EXCEPT ![name[n]][newVersion[n]] = @ + 1]
    /\ Rollback(n)
    /\ FinishIteration(n)
    /\ UNCHANGED <<conf, isInitialized, tableExists>>

\* as mig_up, but migration.up or one of its queries fails with a database
\* error: the callback throws, ROLLBACK
mig_up_fails(n) ==
    /\ pc[n] = "mig_lock"
    /\ CanLockTable(n)
    /\ ~SkipStep(CurrentVersion(ledger[name[n]]), newVersion[n])
    /\ newVersion[n] \in migrations[n]
    /\ failures < MaxFailures
    /\ failures' = failures + 1
    /\ invoked' = [invoked EXCEPT ![name[n]][newVersion[n]] = @ + 1]
    /\ Abort(n, "sql_error")
    /\ UNCHANGED <<conf, isInitialized, tableExists>>

\* mutant: the version is not written before the flag is released and the
\* transaction commits
mig_record_VersionNotWritten(n) ==
    /\ pc[n] = "mig_record"
    /\ Commit(n, setSchemaLock(n, tx[n], FALSE))
    /\ FinishIteration(n)
    /\ UNCHANGED <<conf, isInitialized, tableExists, invoked, failures>>

\* the version is recorded, the flag released, the callback returns, COMMIT
mig_record(n) ==
    /\ pc[n] = "mig_record"
    /\ Commit(n, setSchemaLock(n, updateSchemaVersion(n, tx[n], newVersion[n]), FALSE))
    /\ FinishIteration(n)
    /\ UNCHANGED <<conf, isInitialized, tableExists, invoked, failures>>

Next ==
    \E n \in Node :
        \/ init(n)
        \/ init_select(n)
        \/ init_insert(n)
        \/ init_commit(n)
        \/ \E t \in Targets : migrateToVersion(n, t)
        \/ migrateLatest(n)
        \/ mig_skip(n)
        \/ mig_notfound(n)
        \/ mig_up(n)
        \/ mig_up_fails(n)
        \/ mig_record(n)

Spec == Init /\ [][Next]_vars

\* init() calls only: the instances start against the fresh database
NextInit ==
    \E n \in Node :
        \/ init(n)
        \/ init_select(n)
        \/ init_insert(n)
        \/ init_commit(n)

SpecInit == Init /\ [][NextInit]_vars

\* a rolling upgrade against the fresh database: every instance has the
\* schema name "SchemaA", and the last instance is a newer build whose
\* MigrationSet has one step more than the MigrationSet of the others
InitUpgrade ==
    /\ name = [n \in Node |-> "SchemaA"]
    /\ \E m \in MigrationSets : \E k \in Versions \ m :
          migrations = [n \in Node |-> IF n = NumNodes THEN m \cup {k} ELSE m]
    /\ version = [n \in Node |-> 0]
    /\ isInitialized = [n \in Node |-> FALSE]
    /\ pc = [n \in Node |-> "idle"]
    /\ target = [n \in Node |-> 0]
    /\ newVersion = [n \in Node |-> 0]
    /\ dbResults = [n \in Node |-> NoRow]
    /\ tx = [n \in Node |-> NoTx]
    /\ last = NoCall
    /\ tableLock = 0
    /\ ledger = [s \in Names |-> NoRow]
    /\ tableExists = FALSE
    /\ bundleCount = [s \in Names |-> 0]
    /\ invoked = [s \in Names |-> [v \in Versions |-> 0]]
    /\ commits = [s \in Names |-> [v \in Versions |-> 0]]
    /\ failures = 0
    /\ foreignKeys = {}
    /\ sorted = NotSorted
    /\ args = NoArgs
    /\ returned = NotReturned

SpecUpgrade == InitUpgrade /\ [][Next]_vars

\* the database errors a statement of init's transaction may fail with: a
\* unique-constraint violation (createStatements are the caller's SQL, and
\* PostgreSQL reports a concurrent creation of the same table or index as
\* one) or any other error
InitErrors == {"duplicate_key", "db_error"}

\* a statement of init's transaction fails with err before the genesis
\* insert has run: the callback throws before `version` is assigned,
\* ROLLBACK, and the catch of init decides
init_fails(n, err) ==
    /\ pc[n] \in {"init_select", "init_insert"}
    /\ failures < MaxFailures
    /\ failures' = failures + 1
    /\ Rollback(n)
    /\ IF Swallowed(err)
       THEN /\ isInitialized' = [isInitialized EXCEPT ![n] = TRUE]
            /\ Return(n, "init", 0, "ok")
       ELSE /\ UNCHANGED isInitialized
            /\ Return(n, "init", 0, err)
    /\ UNCHANGED <<conf, version, tableExists, invoked>>

\* the instances have one schema name and start against the fresh database
InitFresh ==
    /\ Init
    /\ name = [n \in Node |-> "SchemaA"]
    /\ ledger = [s \in Names |-> NoRow]

\* as Next, with failing statements in init; from InitFresh the genesis
\* insert registers the largest key, so that no step is ever due and
\* mig_up, mig_up_fails and mig_record are never enabled
NextInitErrors ==
    \E n \in Node :
        \/ init(n)
        \/ init_select(n)
        \/ init_insert(n)
        \/ init_commit(n)
        \/ \E err \in InitErrors : init_fails(n, err)
        \/ \E t \in Targets : migrateToVersion(n, t)
        \/ migrateLatest(n)
        \/ mig_skip(n)
        \/ mig_notfound(n)

SpecInitErrors == InitFresh /\ [][NextInitErrors]_vars

\* largest migration key of the MigrationSets used for migrateLatest
MaxKey == 10

\* MigrationSets whose keys reach MaxKey: the gap-free sets 2..k and the
\* sets of one key
LatestSets == {2..k : k \in 2..MaxKey} \cup {{k} : k \in 2..MaxKey}

\* the numerically largest key of a non-empty MigrationSet
LargestKey(m) == CHOOSE x \in m : \A y \in m : y <= x

\* instances of the schema "SchemaA" with one of the LatestSets, against
\* the fresh database or the one an earlier deployment left at version 1
InitLatest ==
    /\ name = [n \in Node |-> "SchemaA"]
    /\ \E m \in LatestSets : migrations = [n \in Node |-> m]
    /\ version = [n \in Node |-> 0]
    /\ isInitialized = [n \in Node |-> FALSE]
    /\ pc = [n \in Node |-> "idle"]
    /\ target = [n \in Node |-> 0]
    /\ newVersion = [n \in Node |-> 0]
    /\ dbResults = [n \in Node |-> NoRow]
    /\ tx = [n \in Node |-> NoTx]
    /\ last = NoCall
    /\ tableLock = 0
    /\ ledger \in InitialLedgers
    /\ tableExists = (\E s \in Names : ledger[s].exists)
    /\ bundleCount = [s \in Names |-> IF ledger[s].exists THEN 1 ELSE 0]
    /\ invoked = [s \in Names |-> [v \in 2..MaxKey |-> 0]]
    /\ commits = [s \in Names |-> [v \in 2..MaxKey |-> 0]]
    /\ failures = 0
    /\ foreignKeys = {}
    /\ sorted = NotSorted
    /\ args = NoArgs
    /\ returned = NotReturned

\* as Next, with migrateToVersion called for the largest key
NextLatest ==
    \E n \in Node :
        \/ init(n)
        \/ init_select(n)
        \/ init_insert(n)
        \/ init_commit(n)
        \/ migrateToVersion(n, LargestKey(migrations[n]))
        \/ migrateLatest(n)
        \/ mig_skip(n)
        \/ mig_notfound(n)
        \/ mig_up(n)
        \/ mig_up_fails(n)
        \/ mig_record(n)

SpecLatest == InitLatest /\ [][NextLatest]_vars

(* ------------------- nodes that start concurrently -------------------- *)
\* instances of "SchemaA" with the same gap-free MigrationSet 2..k
InitConverge ==
    /\ InitLatest
    /\ \E k \in 2..MaxKey : migrations = [n \in Node |-> 2..k]

\* the nodes call init() and migrateLatest(); every step succeeds
NextConverge ==
    \E n \in Node :
        \/ init(n)
        \/ init_select(n)
        \/ init_insert(n)
        \/ init_commit(n)
        \/ migrateLatest(n)
        \/ mig_skip(n)
        \/ mig_up(n)
        \/ mig_record(n)

\* every node goes on: it makes its calls, and a query the database can
\* answer is answered.  A query that waits for a lock is answered when the
\* lock is free often enough: PostgreSQL grants a lock to its waiters in
\* the order they came
Fairness ==
    \A n \in Node :
        /\ WF_vars(init(n))
        /\ WF_vars(migrateLatest(n))
        /\ WF_vars(init_commit(n))
        /\ WF_vars(mig_record(n))
        /\ SF_vars(init_select(n))
        /\ SF_vars(init_insert(n))
        /\ SF_vars(mig_skip(n))
        /\ SF_vars(mig_up(n))

SpecConverge == InitConverge /\ [][NextConverge]_vars /\ Fairness

(* ------------------------ sortTableDependencies ------------------------ *)
\* number of tables of the schema
MaxTables == 3

\* the tables of the schema, numbered in declaration order
TableIds == 1..MaxTables

\* the schemas: every set of foreign keys between the tables
Schemas == SUBSET (TableIds \X TableIds)

RECURSIVE TopoSort_Unreferenced(_, _, _)
\* mutant: the tables no remaining table references are taken first
TopoSort_Unreferenced(remaining, fks, out) ==
    IF remaining = {} THEN [done |-> TRUE, ok |-> TRUE, order |-> out]
    ELSE LET ready == {t \in remaining :
                          \A e \in fks : e[2] = t => e[1] \notin remaining}
         IN  IF ready = {} THEN [done |-> TRUE, ok |-> FALSE, order |-> <<>>]
             ELSE LET t == CHOOSE x \in ready : \A y \in ready : x <= y
                  IN  TopoSort_Unreferenced(remaining \ {t}, fks, Append(out, t))

RECURSIVE TopoSort_BreaksCycle(_, _, _)
\* mutant: a residual cycle is resolved silently, by declaration order
TopoSort_BreaksCycle(remaining, fks, out) ==
    IF remaining = {} THEN [done |-> TRUE, ok |-> TRUE, order |-> out]
    ELSE LET ready == {t \in remaining :
                          \A e \in fks : e[1] = t => e[2] \notin remaining}
             from  == IF ready = {} THEN remaining ELSE ready
             t     == CHOOSE x \in from : \A y \in from : x <= y
         IN  TopoSort_BreaksCycle(remaining \ {t}, fks, Append(out, t))

RECURSIVE TopoSort(_, _, _)
\* the topological sort: repeatedly the first table, in declaration order,
\* all of whose referenced tables have been put out; a residual cycle is an
\* error
TopoSort(remaining, fks, out) ==
    IF remaining = {} THEN [done |-> TRUE, ok |-> TRUE, order |-> out]
    ELSE LET ready == {t \in remaining :
                          \A e \in fks : e[1] = t => e[2] \notin remaining}
         IN  IF ready = {} THEN [done |-> TRUE, ok |-> FALSE, order |-> <<>>]
             ELSE LET t == CHOOSE x \in ready : \A y \in ready : x <= y
                  IN  TopoSort(remaining \ {t}, fks, Append(out, t))

\* sortTableDependencies(schema)
sortTableDependencies ==
    /\ ~sorted.done
    /\ sorted' = TopoSort(TableIds, foreignKeys, <<>>)
    /\ UNCHANGED <<name, migrations, foreignKeys, args, returned, version,
                   isInitialized, pc, target, newVersion, dbResults, tx, last, tableLock,
                   tableExists, ledger, bundleCount, invoked, commits, failures>>

\* a schema, before sortTableDependencies is called; no DatabaseSchema
\* instance has been used
InitSort ==
    /\ foreignKeys \in Schemas
    /\ sorted = NotSorted
    /\ args = NoArgs
    /\ returned = NotReturned
    /\ name = [n \in Node |-> "SchemaA"]
    /\ migrations = [n \in Node |-> {}]
    /\ version = [n \in Node |-> 0]
    /\ isInitialized = [n \in Node |-> FALSE]
    /\ pc = [n \in Node |-> "idle"]
    /\ target = [n \in Node |-> 0]
    /\ newVersion = [n \in Node |-> 0]
    /\ dbResults = [n \in Node |-> NoRow]
    /\ tx = [n \in Node |-> NoTx]
    /\ last = NoCall
    /\ tableLock = 0
    /\ ledger = [s \in Names |-> NoRow]
    /\ tableExists = FALSE
    /\ bundleCount = [s \in Names |-> 0]
    /\ invoked = [s \in Names |-> [v \in Versions |-> 0]]
    /\ commits = [s \in Names |-> [v \in Versions |-> 0]]
    /\ failures = 0

NextSort == sortTableDependencies

SpecSort == InitSort /\ [][NextSort]_vars

RECURSIVE Closure(_)
\* the transitive closure of a relation on the tables
Closure(R) ==
    LET R2 == R \cup {p \in TableIds \X TableIds :
                          \E b \in TableIds : <<p[1], b>> \in R /\ <<b, p[2]>> \in R}
    IN  IF R2 = R THEN R ELSE Closure(R2)

\* no table reaches itself along foreign keys
Acyclic(fks) == \A t \in TableIds : <<t, t>> \notin Closure(fks)

(* ---------------------- statement-building calls ----------------------- *)
\* the variables of the DatabaseSchema instances
instances == <<name, migrations, version, isInitialized, pc, target, newVersion,
               dbResults, tx, last, tableLock, tableExists, ledger, bundleCount,
               invoked, commits, failures>>

\* a program that only builds statements: no DatabaseSchema instance is used
NoInstanceUsed ==
    /\ name = [n \in Node |-> "SchemaA"]
    /\ migrations = [n \in Node |-> {}]
    /\ version = [n \in Node |-> 0]
    /\ isInitialized = [n \in Node |-> FALSE]
    /\ pc = [n \in Node |-> "idle"]
    /\ target = [n \in Node |-> 0]
    /\ newVersion = [n \in Node |-> 0]
    /\ dbResults = [n \in Node |-> NoRow]
    /\ tx = [n \in Node |-> NoTx]
    /\ last = NoCall
    /\ tableLock = 0
    /\ ledger = [s \in Names |-> NoRow]
    /\ tableExists = FALSE
    /\ bundleCount = [s \in Names |-> 0]
    /\ invoked = [s \in Names |-> [v \in Versions |-> 0]]
    /\ commits = [s \in Names |-> [v \in Versions |-> 0]]
    /\ failures = 0

\* the sequences over S of at most k elements
SeqUpTo(S, k) == UNION {[1..i -> S] : i \in 0..k}

\* an optional boolean property of a column
OptionalBool == {"undefined", "false", "true"}

(* --------------------------- SQL.createTable --------------------------- *)
\* largest number of columns of a table
MaxColumns == 2

\* a column of `columns`; the columns are taken in the order of
\* Object.entries, and a column's name is its place in that order
ColumnDefs == [primaryKey : OptionalBool, unique : OptionalBool]

RECURSIVE Ascending(_)
\* the places of set S in ascending order: Array.prototype.filter keeps the
\* order of the entries
Ascending(S) ==
    IF S = {} THEN <<>>
    ELSE LET m == CHOOSE x \in S : \A y \in S : x <= y
         IN  <<m>> \o Ascending(S \ {m})

\* mutant: a column with `primaryKey: false` counts as a key column
IsPrimaryKey_Defined(col) == col.primaryKey # "undefined"

\* col.primaryKey !== undefined && col.primaryKey
IsPrimaryKey(col) == col.primaryKey # "undefined" /\ col.primaryKey = "true"

\* col.unique !== undefined && col.unique (no column sets createIndex)
IsIndexed(col) == col.unique # "undefined" /\ col.unique = "true"

\* no statement text
NoStatement == [table |-> "", columns |-> <<>>, primaryKey |-> <<>>, indexes |-> <<>>]

\* SQL.createTable(name, columns): the error, or the text of CREATE TABLE IF
\* NOT EXISTS with the columns, the PRIMARY KEY constraint over the key
\* columns, and one CREATE INDEX per indexed column
createTable(table, columns) ==
    LET primaryKeyColoumns ==
            Ascending({i \in 1..Len(columns) : IsPrimaryKey(columns[i])})
    IN  IF Len(primaryKeyColoumns) = 0
        THEN [done |-> TRUE, threw |-> TRUE, error |-> "Primary Key(s) missing",
              statement |-> NoStatement]
        ELSE [done |-> TRUE, threw |-> FALSE, error |-> "",
              statement |-> [table |-> table,
                             columns |-> [i \in 1..Len(columns) |-> i],
                             primaryKey |-> primaryKeyColoumns,
                             indexes |-> Ascending({i \in 1..Len(columns) :
                                                       IsIndexed(columns[i])})]]

\* the call SQL.createTable(args.table, args.columns)
CallCreateTable ==
    /\ args.fn = "createTable"
    /\ ~returned.done
    /\ returned' = createTable(args.table, args.columns)
    /\ UNCHANGED <<instances, foreignKeys, sorted, args>>

\* a table definition, before SQL.createTable is called on it
InitCreateTable ==
    /\ NoInstanceUsed
    /\ foreignKeys = {}
    /\ sorted = NotSorted
    /\ \E cols \in SeqUpTo(ColumnDefs, MaxColumns) :
           args = [fn |-> "createTable", table |-> "users", columns |-> cols]
    /\ returned = NotReturned

NextCreateTable == CallCreateTable

SpecCreateTable == InitCreateTable /\ [][NextCreateTable]_vars

(* -------------------- SchemaDiff.addRequiredColumn --------------------- *)
\* largest number of backfill statements the caller passes
MaxUpdates == 3

\* the backfill statements callers pass in `updates`
UpdateTexts == {"UPDATE users SET a = 0;", "UPDATE users SET a = b;"}

\* tables[table][column]: the new column as the schema declares it
NewColumns == [nullable : OptionalBool, hasForeignKey : BOOLEAN]

\* a statement of the returned text
Statement(k, nn, fk, t) == [kind |-> k, notNull |-> nn, constraints |-> fk, text |-> t]

\* col.nullable !== undefined && !col.nullable: the column gets NOT NULL
NotNullClause(col) == col.nullable # "undefined" /\ col.nullable = "false"

\* SQL.addTableColumn(table, column, true): ALTER TABLE ADD COLUMN IF NOT
\* EXISTS with the column's clauses, and ADD CONSTRAINT for its foreign keys
addTableColumn(col) ==
    Statement("add_column", NotNullClause(col), IF col.hasForeignKey THEN 1 ELSE 0, "")

\* mutant: the column is added as the schema declares it
ForcedNullable_AsDeclared(col) == col

\* { name: column, ...tables[table][column], nullable: true }
ForcedNullable(col) == [col EXCEPT !.nullable = "true"]

\* SchemaDiff.addRequiredColumn(table, column, updates): the lines of the
\* text it joins
addRequiredColumn(col, updates) ==
    <<addTableColumn(ForcedNullable(col))>>
    \o [i \in 1..Len(updates) |-> Statement("update", FALSE, 0, updates[i])]
    \o <<Statement("set_not_null", TRUE, 0, "")>>

\* the call addRequiredColumn(table, column, args.updates)
CallAddRequiredColumn ==
    /\ args.fn = "addRequiredColumn"
    /\ ~returned.done
    /\ returned' = [done |-> TRUE,
                    statements |-> addRequiredColumn(args.column, args.updates)]
    /\ UNCHANGED <<instances, foreignKeys, sorted, args>>

\* a new column and the caller's backfill statements, before the call
InitAddRequiredColumn ==
    /\ NoInstanceUsed
    /\ foreignKeys = {}
    /\ sorted = NotSorted
    /\ \E col \in NewColumns : \E ups \in SeqUpTo(UpdateTexts, MaxUpdates) :
           args = [fn |-> "addRequiredColumn", column |-> col, updates |-> ups]
    /\ returned = NotReturned

NextAddRequiredColumn == CallAddRequiredColumn

SpecAddRequiredColumn == InitAddRequiredColumn /\ [][NextAddRequiredColumn]_vars

(* ---------------------- SchemaDiff.replaceTables ----------------------- *)
\* the lists callers pass in `replace`: tables of both schemas, each once
ReplaceLists == {l \in SeqUpTo(TableIds, MaxTables) :
                    \A i, j \in 1..Len(l) : i # j => l[i] # l[j]}

\* the schemas that can be created: no cycle of foreign keys
AcyclicSchemas == {fks \in Schemas : Acyclic(fks)}

\* SQL.dropTable(table, true): the SELECT over pg_class, which returns text
\* and changes nothing, then DROP TABLE table
dropTable(t) == [op |-> "drop", table |-> t]

\* SQL.createTable(table, tables[table])
createTableOf(t) == [op |-> "create", table |-> t]

\* [...replace].reverse()
Reverse(l) == [i \in 1..Len(l) |-> l[Len(l) + 1 - i]]

\* SchemaDiff.replaceTables(replace)
replaceTables(replace) ==
    [i \in 1..Len(replace) |-> dropTable(replace[i])]
    \o [i \in 1..Len(replace) |-> createTableOf(Reverse(replace)[i])]

\* the call replaceTables(args.replace); the tables keep their foreign keys
CallReplaceTables ==
    /\ args.fn = "replaceTables"
    /\ ~returned.done
    /\ returned' = [done |-> TRUE, statements |-> replaceTables(args.replace)]
    /\ UNCHANGED <<instances, foreignKeys, sorted, args>>

\* a schema whose tables exist, and the list of tables to replace
InitReplaceTables ==
    /\ NoInstanceUsed
    /\ foreignKeys \in AcyclicSchemas
    /\ sorted = NotSorted
    /\ \E l \in ReplaceLists : args = [fn |-> "replaceTables", replace |-> l]
    /\ returned = NotReturned

NextReplaceTables == CallReplaceTables

SpecReplaceTables == InitReplaceTables /\ [][NextReplaceTables]_vars

(* ----------------------- bulkPreparedStatements ------------------------ *)
\* largest number of queries of a call
MaxQueries == 2
\* largest length of a query's sql
MaxSqlLen == 3
\* largest number of values of a query
MaxValues == 2

\* the characters of the sql texts; a text is the sequence of its characters
SqlChars == {"$", "1", "2"}

\* the values: the number 7 and the string of one apostrophe
QueryValues == {[type |-> "number", text |-> <<"7">>],
                [type |-> "string", text |-> <<"'">>]}

\* the queries: `values` absent or empty is the empty sequence
Queries == [sql : SeqUpTo(SqlChars, MaxSqlLen), values : SeqUpTo(QueryValues, MaxValues)]

\* the character of a decimal digit
DigitChar(d) == <<"0", "1", "2", "3", "4", "5", "6", "7", "8", "9">>[d + 1]

\* (idx + 1) appended to "\\$": the characters of the pattern
Pattern(k) == <<"$">> \o [i \in 1..Len(Digits(k)) |-> DigitChar(Digits(k)[i])]

RECURSIVE EscapeQuotes(_)
\* value.replace(/'/g, "''")
EscapeQuotes(t) ==
    IF t = <<>> THEN <<>>
    ELSE (IF Head(t) = "'" THEN <<"'", "'">> ELSE <<Head(t)>>) \o EscapeQuotes(Tail(t))

\* mapValue: toString of a boolean or number, the quoted text of a string
mapValue(value) ==
    IF value.type = "string" THEN <<"'">> \o EscapeQuotes(value.text) \o <<"'">>
    ELSE value.text

\* text t has pattern p at its head
StartsWith(t, p) == Len(t) >= Len(p) /\ SubSeq(t, 1, Len(p)) = p

RECURSIVE Replace(_, _, _)
\* t.replace(new RegExp(p, "g"), rep), for a rep without `$`
Replace(t, p, rep) ==
    IF t = <<>> THEN <<>>
    ELSE IF StartsWith(t, p) THEN rep \o Replace(SubSeq(t, Len(p) + 1, Len(t)), p, rep)
    ELSE <<Head(t)>> \o Replace(Tail(t), p, rep)

RECURSIVE forEachValue(_, _, _, _)
\* values?.forEach((value, idx) => { _sql = sql.replace(...) }): every
\* round replaces in `sql`, the text the query came with
forEachValue(sql, _sql, values, idx) ==
    IF idx > Len(values) THEN _sql
    ELSE forEachValue(sql, Replace(sql, Pattern(idx), mapValue(values[idx])), values, idx + 1)

RECURSIVE bulkPreparedStatements(_)
\* bulkPreparedStatements(queries): bulkQuery += `${_sql}\n` per query
bulkPreparedStatements(queries) ==
    IF queries = <<>> THEN <<>>
    ELSE forEachValue(Head(queries).sql, Head(queries).sql, Head(queries).values, 1)
         \o <<"\n">> \o bulkPreparedStatements(Tail(queries))

\* the call bulkPreparedStatements(args.queries)
CallBulkPreparedStatements ==
    /\ args.fn = "bulkPreparedStatements"
    /\ ~returned.done
    /\ returned' = [done |-> TRUE, text |-> bulkPreparedStatements(args.queries)]
    /\ UNCHANGED <<instances, foreignKeys, sorted, args>>

\* a list of queries, before the call
InitBulk ==
    /\ NoInstanceUsed
    /\ foreignKeys = {}
    /\ sorted = NotSorted
    /\ \E qs \in SeqUpTo(Queries, MaxQueries) :
           args = [fn |-> "bulkPreparedStatements", queries |-> qs]
    /\ returned = NotReturned

NextBulk == CallBulkPreparedStatements

SpecBulk == InitBulk /\ [][NextBulk]_vars

(* ------------------------------- claims -------------------------------- *)
\* everything but `last`
state == <<name, migrations, foreignKeys, sorted, args, returned, version, isInitialized, pc, target, newVersion,
           dbResults, tx, tableLock, tableExists, ledger, bundleCount, invoked,
           commits, failures>>

\* the committed ledger row of the instance's schema name
Stored(n) == ledger[name[n]]

\* every instance has the same schema name and the gap-free MigrationSet 2..N
SameSetOnAllNodes(N) ==
    \A m \in Node : name[m] = name[1] /\ migrations[m] = 2..N

\* the call that has just returned is migrateToVersion(t) on n, without error
Migrated(n, t) == last = Call(n, "migrate", t, "ok")

\* C1: when all K instances have the same MigrationSet 2..N and run against
\* the same fresh database, then whenever migrateLatest() returns on an
\* instance, every step 2..N has been invoked exactly once in total and the
\* instance's getVersion() is N.
C1_EachStepOnceAcrossNodes ==
    \A n \in Node, N \in Versions :
        (SameSetOnAllNodes(N) /\ failures = 0 /\ Migrated(n, N))
        => /\ version[n] = N
           /\ \A v \in 2..N : invoked[name[n]][v] = 1

\* C2: for every schema name and version at most one transaction that
\* applies the step ever commits; an instance inside the step's transaction
\* holds the table lock and found the stored version one below the step.
C2_AtMostOneCommitPerStep ==
    /\ \A s \in Names, v \in Versions : commits[s][v] <= 1
    /\ \A n \in Node : pc[n] = "mig_record" =>
          /\ tableLock = n
          /\ Stored(n).version < newVersion[n]
          /\ commits[name[n]][newVersion[n]] = 0
          /\ \A m \in Node \ {n} : pc[m] # "mig_record"

\* a step failed once, was retried, and its transaction committed once
C2_Witness ==
    \E s \in Names, v \in Versions : commits[s][v] = 1 /\ invoked[s][v] = 2

Repeating(n) == pc[n] = "mig_lock" /\ target[n] >= 2 /\ version[n] = target[n]

\* C4: without failing steps a step function is invoked at most once in
\* total, and a call migrateToVersion(v) on an instance that is already at v
\* returns without error leaving getVersion(), the ledger and the
\* invocation counts unchanged.
C4_Idempotent ==
    /\ [](failures = 0 => \A s \in Names, v \in Versions : invoked[s][v] <= 1)
    /\ [][\A n \in Node :
            (Repeating(n) /\ pc'[n] # pc[n])
            => /\ last' = Call(n, "migrate", target[n], "ok")
               /\ version' = version
               /\ ledger' = ledger
               /\ invoked' = invoked
               /\ commits' = commits]_vars

\* step v was invoked once and committed, and a second migrateToVersion(v)
\* is running on an instance that is at v and has step v
C4_Witness ==
    \E n \in Node :
        /\ Repeating(n)
        /\ target[n] \in migrations[n]
        /\ invoked[name[n]][target[n]] = 1
        /\ commits[name[n]][target[n]] = 1

\* node n, idle, makes a call of migrateToVersion(t) in this step
CallsMigrate(n, t) ==
    /\ pc[n] = "idle"
    /\ \/ pc'[n] = "mig_lock" /\ target'[n] = t
       \/ last'.node = n /\ last'.op = "migrate" /\ last'.target = t

\* C5: migrateToVersion(t) with 2 <= t < getVersion() returns at once and
\* without error; no step is invoked and getVersion(), the ledger and
\* everything else stay as they were.
C5_LowerTargetIsNoOp ==
    [][\A n \in Node, t \in Versions :
          (CallsMigrate(n, t) /\ isInitialized[n] /\ t < version[n])
          => /\ last' = Call(n, "migrate", t, "ok")
             /\ UNCHANGED state]_vars

\* migrateToVersion(t) has just returned on an instance whose version is above t
C5_Witness ==
    \E n \in Node :
        /\ last.node = n /\ last.op = "migrate" /\ last.result = "ok"
        /\ last.target >= 2 /\ last.target < version[n]
        /\ Stored(n).version = version[n]

\* C6: instances that ran init() for the same schema name against the fresh
\* database all completed without error, report the same getVersion(), and
\* the create statements were committed exactly once.
C6_InitConverges ==
    /\ last.result # "duplicate_key"
    /\ \A a, b \in Node :
          (name[a] = name[b] /\ isInitialized[a] /\ isInitialized[b])
          => /\ version[a] = version[b]
             /\ bundleCount[name[a]] = 1

\* node n, idle, makes a call of init() in this step
CallsInit(n) ==
    /\ pc[n] = "idle"
    /\ \/ pc'[n] = "init_select"
       \/ last'.node = n /\ last'.op = "init"

\* C7: init() on an instance that is initialized fails with the
\* already-initialized error, opens no transaction and changes nothing.
C7_SecondInitRejected ==
    [][\A n \in Node :
          (CallsInit(n) /\ isInitialized[n])
          => /\ last' = Call(n, "init", 0, "already_initialized")
             /\ UNCHANGED state]_vars

\* init() has just been rejected on an initialized instance
C7_Witness ==
    \E n \in Node :
        /\ last = Call(n, "init", 0, "already_initialized")
        /\ isInitialized[n]
        /\ Stored(n).exists

\* C8: when init() finds a ledger row of its schema name, it runs no create
\* statements and writes no row, getVersion() becomes the stored version,
\* and its commit leaves the ledger and the create-statement count unchanged.
C8_RestartAdoptsStoredVersion ==
    /\ [](\A n \in Node : dbResults[n].exists =>
             /\ pc[n] = "init_commit"
             /\ ~tx[n].bundle /\ ~tx[n].dirty
             /\ version[n] = dbResults[n].version)
    /\ [][\A n \in Node :
            (pc[n] = "init_commit" /\ dbResults[n].exists /\ pc'[n] # pc[n])
            => /\ last' = Call(n, "init", 0, "ok")
               /\ isInitialized'[n]
               /\ version'[n] = ledger'[name[n]].version
               /\ ledger' = ledger
               /\ bundleCount' = bundleCount]_vars

\* an instance whose init() would insert the largest key of its MigrationSet
\* has adopted a lower stored version and is about to commit
C8_Witness ==
    \E n \in Node :
        /\ pc[n] = "init_commit" /\ dbResults[n].exists
        /\ migrations[n] # {}
        /\ version[n] < LargestKey(migrations[n])
        /\ bundleCount[name[n]] = 1

C10_MigratesExactlyUpToTarget ==
    \A n \in Node, N \in Versions, t \in Versions :
        (SameSetOnAllNodes(N) /\ failures = 0 /\ t <= N /\ Migrated(n, t))
        => /\ \A v \in 2..t : invoked[name[n]][v] = 1
           /\ version[n] = t
           /\ \A v \in (t+1)..N : invoked[name[n]][v] = 0

\* C11: migrateToVersion on an instance that is not initialized, or with a
\* target <= 1, is rejected at once (not-initialized first, then the target
\* error): no transaction is opened, no step is invoked, getVersion() and
\* the ledger stay as they were, and getVersion() of an instance that is
\* not initialized is 0.
C11_PreconditionRejected ==
    [][\A n \in Node, t \in Targets :
          (CallsMigrate(n, t) /\ (~isInitialized[n] \/ t <= 1))
          => /\ last' = Call(n, "migrate", t,
                            IF ~isInitialized[n] THEN "not_initialized"
                            ELSE "target_too_low")
             /\ ~isInitialized[n] => version[n] = 0
             /\ UNCHANGED state]_vars

\* migrateToVersion(1) has just been rejected on an initialized instance
\* whose loop would have run (its version is 1), while another instance has
\* not been initialized
C11_Witness ==
    \E n \in Node :
        /\ last = Call(n, "migrate", 1, "target_too_low")
        /\ isInitialized[n] /\ version[n] = 1
        /\ \E m \in Node : ~isInitialized[m] /\ version[m] = 0

\* node n, waiting for the table lock in an iteration of its loop, acts in
\* this step
LockGranted(n) ==
    /\ pc[n] = "mig_lock"
    /\ pc'[n] # "mig_lock" \/ newVersion'[n] # newVersion[n]

\* the step of the iteration node n is in is needed and has no definition
StepMissing(n) ==
    /\ CurrentVersion(Stored(n)) # Null
    /\ CurrentVersion(Stored(n)) < newVersion[n]
    /\ newVersion[n] \notin migrations[n]

\* C12: when the loop of migrateToVersion reaches a version v above the
\* stored version that has no step, every version below v has been applied
\* and committed (the stored version and getVersion() are v - 1), the call
\* fails with the not-found error of v, and getVersion(), the ledger and
\* the invocation counts stay as they were: no step above v is invoked,
\* in this call or before it.
C12_MissingStepAborts ==
    /\ [](\A n \in Node :
            (last.node = n /\ last.op = "migrate" /\ last.result = "not_found")
            => LET v == Stored(n).version + 1
               IN  /\ v \notin migrations[n]
                   /\ v <= last.target
                   /\ version[n] = v - 1
                   /\ \A w \in Versions : w >= v => invoked[name[n]][w] = 0)
    /\ [][\A n \in Node :
            (LockGranted(n) /\ StepMissing(n))
            => /\ last' = Call(n, "migrate", target[n], "not_found")
               /\ Stored(n).version = newVersion[n] - 1
               /\ version[n] = newVersion[n] - 1
               /\ version' = version
               /\ ledger' = ledger
               /\ invoked' = invoked
               /\ commits' = commits]_vars

\* migrateToVersion has applied and committed step 2 and then failed at a
\* higher version that has no step
C12_Witness ==
    \E n \in Node :
        /\ last.node = n /\ last.op = "migrate" /\ last.result = "not_found"
        /\ version[n] >= 2 /\ Stored(n).version = version[n]
        /\ commits[name[n]][version[n]] = 1
        /\ version[n] + 1 <= last.target

\* the stored version of node n's schema name is below the step of the
\* iteration node n is in, and node n has a definition of that step
StepDue(n) ==
    /\ Stored(n).exists
    /\ Stored(n).version < newVersion[n]
    /\ newVersion[n] \in migrations[n]

\* C13: after migrateToVersion failed with the not-found error the committed
\* locked value of the row is false and the row still reads as not locked;
\* every instance that later reaches, under the table lock, a step above the
\* stored version for which it has a definition invokes that step instead
\* of being turned away by the flag.
C13_FlagFreeAfterMissingStep ==
    /\ [](\A n \in Node :
            (last.node = n /\ last.op = "migrate" /\ last.result = "not_found")
            => /\ Stored(n).exists /\ Stored(n).locked = FALSE
               /\ CurrentVersion(Stored(n)) = Stored(n).version)
    /\ [][\A n \in Node :
            (LockGranted(n) /\ StepDue(n))
            => /\ invoked'[name[n]][newVersion[n]] = invoked[name[n]][newVersion[n]] + 1
               /\ \/ pc'[n] = "mig_record" /\ tx'[n].step = newVersion[n]
                  \/ last' = Call(n, "migrate", target[n], "sql_error")]_vars

\* migrateToVersion has just failed on an instance that lacks the step above
\* the stored version, while the newer build, which has that step, is
\* waiting for the table lock in the iteration of that step
C13_Witness ==
    \E n \in Node, m \in Node :
        /\ last.node = n /\ last.op = "migrate" /\ last.result = "not_found"
        /\ Stored(n).version + 1 \notin migrations[n]
        /\ m # n /\ name[m] = name[n]
        /\ pc[m] = "mig_lock" /\ newVersion[m] = Stored(n).version + 1
        /\ StepDue(m)

\* the step function of the iteration node n is in is invoked in this step
\* and neither it nor its statements complete
StepFails(n) ==
    /\ LockGranted(n)
    /\ newVersion[n] \in Versions
    /\ invoked'[name[n]][newVersion[n]] = invoked[name[n]][newVersion[n]] + 1
    /\ pc'[n] # "mig_record"

\* C14: when step v fails with a database error, migrateToVersion rejects
\* with that error and returns; nothing of the step's transaction is
\* committed, the table lock is released, the stored version and
\* getVersion() are and stay v - 1, and no further step is invoked in the
\* run.
C14_StepErrorRollsBack ==
    [][\A n \in Node :
          StepFails(n)
          => /\ last' = Call(n, "migrate", target[n], "sql_error")
             /\ pc'[n] = "idle" /\ tx'[n] = NoTx
             /\ tableLock' = 0
             /\ ledger' = ledger /\ commits' = commits /\ bundleCount' = bundleCount
             /\ Stored(n).version = newVersion[n] - 1
             /\ version[n] = newVersion[n] - 1
             /\ version' = version
             /\ \A w \in Versions :
                   w # newVersion[n] => invoked'[name[n]][w] = invoked[name[n]][w]]_vars

\* migrateToVersion(3) has just failed with the error of step 2: the
\* stored version and getVersion() are 1 and step 3, which the instance
\* has, was not invoked
C14_Witness ==
    \E n \in Node :
        /\ last = Call(n, "migrate", 3, "sql_error")
        /\ 3 \in migrations[n]
        /\ version[n] = 1 /\ Stored(n) = Row(1, FALSE)
        /\ invoked[name[n]][2] = 1 /\ commits[name[n]][2] = 0
        /\ invoked[name[n]][3] = 0

\* the step function of version w is invoked for schema name s in this step
Invokes(s, w) == invoked'[s][w] = invoked[s][w] + 1

\* C15: a migrateToVersion run that fails leaves the ledger row, version
\* and locked, as the last committed transaction wrote it; in every run,
\* a retry from the same or another instance included, the iterations up to
\* the stored version invoke nothing, and the step that is invoked is the
\* one right above the stored version and has not been committed before.
C15_RetryResumesAtFailedStep ==
    /\ [](\A s \in Names : ledger[s].exists => ledger[s].locked = FALSE)
    /\ [][/\ last'.result \in {"sql_error", "not_found"} => ledger' = ledger
          /\ \A n \in Node :
                (LockGranted(n) /\ Stored(n).exists
                   /\ newVersion[n] <= Stored(n).version)
                => invoked' = invoked /\ ledger'[name[n]] = ledger[name[n]]
          /\ \A s \in Names, w \in Versions :
                Invokes(s, w)
                => /\ ledger[s] = Row(w - 1, FALSE)
                   /\ commits[s][w] = 0
                   /\ \A u \in Versions : u # w => invoked'[s][u] = invoked[s][u]
         ]_vars

\* step 2 was applied once, step 3 failed once, and a retry has invoked
\* step 3 again and is about to commit it
C15_Witness ==
    \E n \in Node :
        /\ pc[n] = "mig_record" /\ newVersion[n] = 3
        /\ failures = 1
        /\ invoked[name[n]][3] = 2 /\ commits[name[n]][3] = 0
        /\ invoked[name[n]][2] = 1 /\ commits[name[n]][2] = 1
        /\ Stored(n) = Row(2, FALSE)

\* C16: on an initialized instance with a non-empty MigrationSet a call of
\* migrateLatest() does what a call of migrateToVersion(m) does, m the
\* numerically largest key, and the other way round.
C16_LatestIsLargestKey ==
    [][\A n \in Node :
          (pc[n] = "idle" /\ isInitialized[n])
          => (migrateLatest(n) <=> migrateToVersionBody(n, LargestKey(migrations[n])))]_vars

\* node n, inside a transaction of migrateToVersion, acts in this step
MigrationActs(n) ==
    /\ pc[n] \in {"mig_lock", "mig_record"}
    /\ pc'[n] # pc[n] \/ newVersion'[n] # newVersion[n]

C19_OnlyDuplicateKeySuppressed ==
    [][\A n \in Node :
          /\ \A err \in InitErrors :
                init_fails(n, err)
                => IF err = "duplicate_key"
                   THEN /\ last' = Call(n, "init", 0, "ok")
                        /\ isInitialized'[n]
                   ELSE /\ last' = Call(n, "init", 0, err)
                        /\ ~isInitialized'[n]
                        /\ version'[n] = 0
                        /\ ledger' = ledger /\ bundleCount' = bundleCount
          /\ (CallsInit(n) /\ ~isInitialized[n]) => pc'[n] = "init_select"
          /\ \A t \in Targets :
                (CallsMigrate(n, t) /\ ~isInitialized[n])
                => last' = Call(n, "migrate", t, "not_initialized")]_vars

\* init() has just been rejected with an error that is not the
\* duplicate-key error: the instance is not initialized
C19_Witness ==
    \E n \in Node :
        /\ last = Call(n, "init", 0, "db_error")
        /\ ~isInitialized[n] /\ version[n] = 0
        /\ ~Stored(n).exists

\* C18: after the transaction of a step ended without reaching the version
\* write (the step failed), the ledger row of the schema name reads
\* locked = true.
C18_FlagSurvivesFailedStep ==
    \A n \in Node :
        (last.node = n /\ last.op = "migrate" /\ last.result = "sql_error")
        => Stored(n).exists /\ Stored(n).locked = TRUE

\* the place of table t in the order
Pos(order, t) == CHOOSE i \in 1..Len(order) : order[i] = t

\* C20: for a schema whose foreign keys are acyclic sortTableDependencies
\* returns an order that has every table of the schema exactly once and
\* every table after all the tables its foreign keys reference.
C20_SortedAfterReferenced ==
    (sorted.done /\ Acyclic(foreignKeys))
    => /\ sorted.ok
       /\ Len(sorted.order) = MaxTables
       /\ \A t \in TableIds : \E i \in 1..Len(sorted.order) : sorted.order[i] = t
       /\ \A e \in foreignKeys : Pos(sorted.order, e[2]) < Pos(sorted.order, e[1])

\* a chain of foreign keys against the declaration order has been sorted:
\* table 1 references table 2, table 2 references table 3
C20_Witness ==
    /\ sorted.done
    /\ {<<1, 2>>, <<2, 3>>} \subseteq foreignKeys
    /\ Acyclic(foreignKeys)
    /\ sorted.order[1] = 3 /\ sorted.order[2] = 2 /\ sorted.order[3] = 1

\* C21: on a schema whose foreign keys contain a cycle sortTableDependencies
\* fails with an error and returns no order.
C21_CycleRejected ==
    (sorted.done /\ ~Acyclic(foreignKeys))
    => (~sorted.ok /\ sorted.order = <<>>)

\* two tables that reference each other, next to a table that references
\* neither, have been given to the sort and it has failed
C21_Witness ==
    /\ sorted.done
    /\ foreignKeys = {<<2, 3>>, <<3, 2>>}
    /\ ~sorted.ok

\* C22: createTable fails with the 'Primary Key(s) missing' error and
\* returns no statement text whenever no column has primary-key membership,
\* and returns a statement whenever at least one column has it.
C22_PrimaryKeyRequired ==
    (args.fn = "createTable" /\ returned.done)
    => IF \E i \in 1..Len(args.columns) : args.columns[i].primaryKey = "true"
       THEN /\ ~returned.threw
            /\ returned.statement # NoStatement
            /\ returned.statement.table = args.table
       ELSE /\ returned.threw
            /\ returned.error = "Primary Key(s) missing"
            /\ returned.statement = NoStatement

\* createTable has thrown on a table all of whose columns say
\* `primaryKey: false` or nothing
C22_Witness ==
    /\ args.fn = "createTable"
    /\ returned.done /\ returned.threw
    /\ Len(args.columns) = 2
    /\ args.columns[1].primaryKey = "false"
    /\ args.columns[2].primaryKey = "undefined"

\* C23: the statements of addRequiredColumn(table, column, updates) are the
\* add-column statement with the column nullable, then the caller's backfill
\* statements in the given order, then SET NOT NULL; every backfill
\* statement lies strictly after the add and strictly before SET NOT NULL.
C23_BackfillBetweenAddAndNotNull ==
    (args.fn = "addRequiredColumn" /\ returned.done)
    => LET r == returned.statements
           k == Len(args.updates)
       IN  /\ Len(r) = k + 2
           /\ r[1].kind = "add_column" /\ ~r[1].notNull
           /\ r[k + 2].kind = "set_not_null"
           /\ \A i \in 1..k : r[i + 1].kind = "update" /\ r[i + 1].text = args.updates[i]
           /\ \A i \in 1..(k + 2) :
                  r[i].kind = "update" => (1 < i /\ i < k + 2)

\* a column declared `nullable: false` has been added with two different
\* backfill statements
C23_Witness ==
    /\ args.fn = "addRequiredColumn"
    /\ returned.done
    /\ args.column.nullable = "false"
    /\ Len(args.updates) = 2
    /\ args.updates[1] # args.updates[2]
    /\ returned.statements[2].text = args.updates[1]

\* the tables of list l
Listed(l) == {l[i] : i \in 1..Len(l)}

\* the tables statements 1..i-1 of r have applied op to
Before(r, i, op) == {r[j].table : j \in {k \in 1..(i - 1) : r[k].op = op}}

\* one drop per listed table in the listed order, then one create per listed
\* table in the reverse order
DropsThenReverseCreates(l, r) ==
    /\ Len(r) = 2 * Len(l)
    /\ \A i \in 1..Len(l) : r[i] = [op |-> "drop", table |-> l[i]]
    /\ \A i \in 1..Len(l) : r[Len(l) + i] = [op |-> "create", table |-> l[Len(l) + 1 - i]]

\* no table is dropped while another listed table that still exists
\* references it, and no table is created before a listed table it references
ForeignKeySafe(l, r, fks) ==
    \A i \in 1..Len(r) :
        /\ r[i].op = "drop" =>
               ~\E u \in Listed(l) \ (Before(r, i, "drop") \cup {r[i].table}) :
                   <<u, r[i].table>> \in fks
        /\ r[i].op = "create" =>
               ~\E u \in Listed(l) \ (Before(r, i, "create") \cup {r[i].table}) :
                   <<r[i].table, u>> \in fks

\* C24: replaceTables(list) emits one drop per listed table in the listed
\* order, then one create per listed table in the reverse order, and this
\* sequence is foreign-key safe.
C24_ReplaceIsForeignKeySafe ==
    (args.fn = "replaceTables" /\ returned.done)
    => /\ DropsThenReverseCreates(args.replace, returned.statements)
       /\ ForeignKeySafe(args.replace, returned.statements, foreignKeys)

\* C25: step v and its ledger record are one unit.  No committed state has
\* the effects of step v while the stored version is below v; the
\* transaction that commits the effects of step v commits version = v with
\* locked = false in the same step; a step that fails commits nothing.
C25_StepAndRecordAreOneUnit ==
    /\ [](\A s \in Names : \A v \in Versions :
            commits[s][v] > 0 => (ledger[s].exists /\ ledger[s].version >= v))
    /\ [][\A s \in Names : \A v \in Versions :
            /\ commits'[s][v] # commits[s][v] => ledger'[s] = Row(v, FALSE)
            /\ (failures' # failures \/ last'.result \in {"sql_error", "not_found"})
                   => (ledger' = ledger /\ commits' = commits)]_vars

\* step v failed once and was rolled back, and a later transaction has
\* committed it together with its record
C25_Witness ==
    \E s \in Names : \E v \in Versions :
        /\ failures = 1
        /\ invoked[s][v] = 2
        /\ commits[s][v] = 1
        /\ ledger[s] = Row(v, FALSE)

RECURSIVE SplitLines(_, _)
\* the lines of text t, each ended by a line feed (cur: the line so far)
SplitLines(t, cur) ==
    IF t = <<>> THEN <<>>
    ELSE IF Head(t) = "\n" THEN <<cur>> \o SplitLines(Tail(t), <<>>)
    ELSE SplitLines(Tail(t), Append(cur, Head(t)))

RECURSIVE Substituted(_, _, _)
\* text t with the placeholders $idx..$n replaced, one after the other, by
\* the text forms of the values
Substituted(t, values, idx) ==
    IF idx > Len(values) THEN t
    ELSE Substituted(Replace(t, Pattern(idx), mapValue(values[idx])), values, idx + 1)

\* text t contains pattern p
Contains(t, p) == \E i \in 1..Len(t) : StartsWith(SubSeq(t, i, Len(t)), p)

\* C28: bulkPreparedStatements outputs the queries in input order, one per
\* line; in a query with values v1..vn every placeholder $i (1 <= i <= n)
\* is replaced by the text form of vi and none of $1..$n remains; a query
\* without values is emitted unchanged.
C28_EveryPlaceholderReplaced ==
    (args.fn = "bulkPreparedStatements" /\ returned.done)
    => LET lines == SplitLines(returned.text, <<>>)
           qs    == args.queries
       IN  /\ Len(lines) = Len(qs)
           /\ \A q \in 1..Len(qs) :
                  /\ lines[q] = Substituted(qs[q].sql, qs[q].values, 1)
                  /\ \A i \in 1..Len(qs[q].values) : ~Contains(lines[q], Pattern(i))
                  /\ qs[q].values = <<>> => lines[q] = qs[q].sql

\* C26: nodes that run init() and migrateLatest() with the same gap-free
\* MigrationSet 2..N: under fair scheduling every call of a node returns
\* (no wait on the ledger lock lasts forever) and the stored version
\* eventually equals N.
C26_NodesConverge ==
    /\ \A n \in Node : (pc[n] # "idle") ~> (pc[n] = "idle")
    /\ <>(/\ ledger["SchemaA"].exists
           /\ ledger["SchemaA"].version = LargestKey(migrations[1]))

====
